---- MODULE Spec2Model ----
(***************************************************************************)
(* SwarmsAPIClient (api_call.py): the client of a remote agent-hosting     *)
(* service, its four operations and the driver main().                     *)
(*                                                                         *)
(* Python values are tagged records: a str is [ty |-> "str", s |-> chars], *)
(* where chars is a sequence of text atoms (" " is the whitespace atom),   *)
(* None is [ty |-> "NoneType"], a JSON array is [ty |-> "list"].           *)
(* The remote service and the network are the environment: each request   *)
(* gets a reply drawn from a finite set of reply shapes.                   *)
(***************************************************************************)
EXTENDS Integers, Sequences, FiniteSets, TLC

VARIABLES
    environ,         \* os.environ['OPENAI_API_KEY'] as os.getenv returns it
    client,          \* "none" | "live" | "failed": the SwarmsAPIClient instance
    base_url,        \* self.base_url; the endpoints of the requests are relative to it
    debug,           \* self.debug
    api_key,         \* self.api_key
    openai_api_key,  \* self.openai_api_key
    user_id,         \* self.user_id
    caller,          \* "free": any caller of the client; "main": the driver main()
    op,              \* the client method being executed, "idle" between calls
    attempt,         \* the loop variable of the retry loop being executed
    frame,           \* the locals of the method being executed
    trace,           \* what the running (or last) invocation did, in order
    outcome,         \* how the last invocation ended
    main_pc,         \* the position of main()
    result_json,     \* main()'s result_json
    saved            \* the content of swarms_api_results.json, or Unsaved

vars == <<environ, client, base_url, debug, api_key, openai_api_key, user_id, caller, op, attempt,
          frame, trace, outcome, main_pc, result_json, saved>>

clientVars == <<environ, client, base_url, debug, openai_api_key>>
mainVars == <<main_pc, result_json, saved>>

----------------------------------------------------------------------------
(* Python values *)

Str(chars) == [ty |-> "str", s |-> chars]
None == [ty |-> "NoneType", s |-> <<>>]
JsonList == [ty |-> "list", s |-> <<>>]

\* bool(v): None and "" are falsy
Truthy(v) == v.ty = "str" /\ v.s # <<>>

IsSpace(c) == c = " "

RECURSIVE lstrip(_)
lstrip(chars) ==
    IF chars # <<>> /\ IsSpace(Head(chars)) THEN lstrip(Tail(chars)) ELSE chars

RECURSIVE rstrip(_)
rstrip(chars) ==
    IF chars # <<>> /\ IsSpace(chars[Len(chars)])
    THEN rstrip(SubSeq(chars, 1, Len(chars) - 1))
    ELSE chars

\* str.strip()
strip(v) == Str(rstrip(lstrip(v.s)))

\* str.startswith(prefix)
startswith(v, prefix) ==
    /\ Len(prefix.s) <= Len(v.s)
    /\ SubSeq(v.s, 1, Len(prefix.s)) = prefix.s

\* f"{a}{b}"
Concat(a, b) == Str(a.s \o b.s)

\* the credentials and identifiers the service may hand out
K_a == Str(<<"a">>)
K_b_padded == Str(<<" ", "b", " ">>)
K_blank == Str(<<" ">>)
K_empty == Str(<<>>)
U_1 == Str(<<"u1">>)
U_2 == Str(<<"u2">>)
A_1 == Str(<<"agent-1">>)

\* a dict: a function from keys to values; {} is EmptyDict
EmptyDict == [k \in {} |-> None]

\* dict.get(key, default)
Get(d, key, default) == IF key \in DOMAIN d THEN d[key] ELSE default

----------------------------------------------------------------------------
(* Exceptions: the class, str(e), and the attempt of the invocation during *)
(* which the exception object was created (its identity).                  *)

Exc(cls, msg, at) == [cls |-> cls, msg |-> msg, at |-> at]
NoExc == Exc("", Str(<<>>), 0)

\* what a call gives its caller: a returned value or a raised exception
Returned(v) == [kind |-> "return", result |-> v, exc |-> NoExc]
Raised(e) == [kind |-> "raise", result |-> None, exc |-> e]
Pending == [kind |-> "pending", result |-> None, exc |-> NoExc]

----------------------------------------------------------------------------
(* What requests.post gives: a transport exception, or a response with a   *)
(* status code, a body (response.content empty or not) and what            *)
(* response.json() makes of the body (a dict, a list, or a decode error).  *)

NetError == [net |-> "error", status_code |-> 0, content |-> "empty", json |-> None]
Http(status, content, json) ==
    [net |-> "ok", status_code |-> status, content |-> content, json |-> json]
Dict(d) == [ty |-> "dict", d |-> d]

NoBody(status) == Http(status, "empty", None)
NotJson(status) == Http(status, "text", None)
JsonArray(status) == Http(status, "json", JsonList)
JsonObject(status, d) == Http(status, "json", Dict(d))


\* the replies the service gives to POST /users
UserReplies ==
    { NetError, NoBody(200), NotJson(200),
      JsonObject(200, [api_key |-> K_a, user_id |-> U_1]),
      JsonObject(200, [api_key |-> K_b_padded, user_id |-> U_2]),
      JsonObject(200, [api_key |-> K_blank, user_id |-> U_1]),
      JsonObject(200, [user_id |-> U_2]),
      JsonObject(500, [detail |-> Str(<<"Internal Server Error">>)]) }

\* the replies the service gives to POST /users/{user_id}/api-keys
KeyReplies ==
    { NetError, NoBody(200), NotJson(200), JsonArray(200), NoBody(204),
      JsonObject(200, [key |-> K_a]),
      JsonObject(200, [key |-> K_b_padded]),
      JsonObject(200, [key |-> K_blank]),
      JsonObject(200, [name |-> Str(<<"new_api_key">>)]),
      JsonObject(401, [detail |-> Str(<<"Invalid API key">>)]) }

\* the replies the service gives to POST /agent
AgentReplies ==
    { NetError, NoBody(204), NoBody(200), NoBody(401), JsonArray(200) }
    \cup { JsonObject(st, [agent_id |-> A_1]) : st \in {200, 401} }
    \cup { JsonObject(200, [status |-> Str(<<"pending">>)]),
           JsonObject(401, [detail |-> Str(<<"Invalid API key">>)]) }

\* the detail text by which the service reports that the agent was not found
NotFoundSignature == Str(<<"Error processing completion: 404">>)
NotFoundDetail == Str(<<"Error processing completion: 404", ": Agent not found">>)
OtherDetail == Str(<<"Agent busy; last ", "Error processing completion: 404">>)

\* the replies the service gives to POST /agent/completions
CompletionReplies ==
    { NetError, NoBody(204), NoBody(200), JsonArray(200),
      JsonObject(200, [response |-> Str(<<"None">>)]),
      JsonObject(200, [response |-> Str(<<"Paris">>)]),
      JsonObject(200, [detail |-> NotFoundDetail]),
      JsonObject(200, [detail |-> OtherDetail]),
      JsonObject(422, [detail |-> JsonList]) }

----------------------------------------------------------------------------
(* The events of a trace *)

UsersUrl == Str(<<"/users">>)
AgentUrl == Str(<<"/agent">>)
CompletionsUrl == Str(<<"/agent/completions">>)

PostEv(url, headers, json) == [ev |-> "post", url |-> url, headers |-> headers, json |-> json]
ReplyEv(reply) == [ev |-> "reply", reply |-> reply]
SleepEv(secs) == [ev |-> "sleep", secs |-> secs]

\* the headers every request carries
JsonHeaders ==
    ("Content-Type" :> Str(<<"application/json">>)) @@ ("Accept" :> Str(<<"application/json">>))

\* requests.post: the response, or the transport exception
requests_post(reply) ==
    IF reply.net = "error"
    THEN Raised(Exc("ConnectionError", Str(<<"connection failed">>), 0))
    ELSE Returned(reply)

\* the exception e as created during attempt `at`
Stamp(out, at) == IF out.kind = "raise" THEN Raised([out.exc EXCEPT !.at = at]) ELSE out

----------------------------------------------------------------------------
(* SwarmsAPIClient._handle_response *)

_handle_response(response, operation) ==
    IF response.status_code = 204 THEN Returned(Dict(EmptyDict))
    ELSE IF response.content = "empty"
    THEN Raised(Exc("Exception",
                    Concat(Str(<<"Empty response received from ">>), operation), 0))
    ELSE IF response.content = "text"
    THEN Raised(Exc("Exception",
                    Concat(Concat(Str(<<"Invalid JSON response from ">>), operation),
                           Str(<<": Expecting value">>)), 0))
    ELSE Returned(response.json)

\* calling .get on the parsed result: a list has no .get
AttributeError(what) == Exc("AttributeError", Str(<<what>>), 0)

----------------------------------------------------------------------------
(* SwarmsAPIClient.create_user: self is [api_key, user_id]; gives the new  *)
(* self, the outcome and the events.                                       *)

create_user_request(username) ==
    PostEv(UsersUrl, JsonHeaders, [username |-> username])

\* the stored api_key kept when the response has none
create_user_keeps_missing(self, username, reply) ==
    LET posted == requests_post(reply)
        handled == IF posted.kind = "raise" THEN posted
                   ELSE _handle_response(posted.result, Str(<<"User creation">>))
        got == IF handled.kind = "return" /\ handled.result.ty # "dict"
               THEN Raised(Exc("AttributeError", Str(<<"'list' object has no attribute 'get'">>), 0))
               ELSE handled
        events == <<create_user_request(username), ReplyEv(reply)>>
    IN  IF got.kind = "return"
        THEN [self |-> [api_key |-> Get(got.result.d, "api_key", self.api_key),
                        user_id |-> Get(got.result.d, "user_id", self.user_id)],
              out |-> Returned(got.result),
              events |-> events]
        ELSE [self |-> self,
              out |-> Raised(Exc("Exception",
                                 Concat(Str(<<"Failed to create user: ">>), got.exc.msg), 0)),
              events |-> events]

\* the stored api_key and user_id cleared before the request is sent
create_user_clears_first(self, username, reply) ==
    LET posted == requests_post(reply)
        handled == IF posted.kind = "raise" THEN posted
                   ELSE _handle_response(posted.result, Str(<<"User creation">>))
        got == IF handled.kind = "return" /\ handled.result.ty # "dict"
               THEN Raised(AttributeError("'list' object has no attribute 'get'"))
               ELSE handled
        events == <<create_user_request(username), ReplyEv(reply)>>
    IN  IF got.kind = "return"
        THEN [self |-> [api_key |-> Get(got.result.d, "api_key", None),
                        user_id |-> Get(got.result.d, "user_id", None)],
              out |-> Returned(got.result),
              events |-> events]
        ELSE [self |-> [api_key |-> None, user_id |-> None],
              out |-> Raised(Exc("Exception",
                                 Concat(Str(<<"Failed to create user: ">>), got.exc.msg), 0)),
              events |-> events]

create_user(self, username, reply) ==
    LET posted == requests_post(reply)
        handled == IF posted.kind = "raise" THEN posted
                   ELSE _handle_response(posted.result, Str(<<"User creation">>))
        got == IF handled.kind = "return" /\ handled.result.ty # "dict"
               THEN Raised(AttributeError("'list' object has no attribute 'get'"))
               ELSE handled
        events == <<create_user_request(username), ReplyEv(reply)>>
    IN  IF got.kind = "return"
        THEN [self |-> [api_key |-> Get(got.result.d, "api_key", None),
                        user_id |-> Get(got.result.d, "user_id", None)],
              out |-> Returned(got.result),
              events |-> events]
        ELSE [self |-> self,
              out |-> Raised(Exc("Exception",
                                 Concat(Str(<<"Failed to create user: ">>), got.exc.msg), 0)),
              events |-> events]

----------------------------------------------------------------------------
(* SwarmsAPIClient.create_api_key *)

\* f"{self.base_url}/users/{user_id}/api-keys"
ApiKeysUrl(uid) ==
    Concat(Concat(Str(<<"/users/">>), IF uid.ty = "str" THEN uid ELSE Str(<<"None">>)),
           Str(<<"/api-keys">>))

create_api_key_request(self, uid) ==
    PostEv(ApiKeysUrl(uid),
           ("api-key" :> self.api_key) @@ JsonHeaders,
           [name |-> Str(<<"new_api_key">>)])

create_api_key(self, uid, reply) ==
    LET posted == requests_post(reply)
        handled == IF posted.kind = "raise" THEN posted
                   ELSE _handle_response(posted.result, Str(<<"API key creation">>))
        events == <<create_api_key_request(self, uid), ReplyEv(reply)>>
    IN  IF handled.kind = "return"
        THEN [self |-> self, out |-> Returned(handled.result), events |-> events]
        ELSE [self |-> self,
              out |-> Raised(Exc("Exception",
                                 Concat(Str(<<"Failed to create API key: ">>), handled.exc.msg), 0)),
              events |-> events]

----------------------------------------------------------------------------
(* SwarmsAPIClient.create_agent *)

\* the loop bound off by one
max_attempts_plus_one == 3 + 1

max_attempts == 3

Continue == [kind |-> "continue", result |-> None, exc |-> NoExc]

\* a debug line that reports a caught exception
CaughtEv(exc) == [ev |-> "caught", exc |-> exc]

agent_config(args) ==
    [agent_name |-> args.agent_name, model_name |-> args.model_name,
     description |-> Str(<<"API-created agent">>), system_prompt |-> args.system_prompt,
     temperature |-> args.temperature, max_loops |-> 1, autosave |-> TRUE,
     dashboard |-> FALSE, verbose |-> TRUE, dynamic_temperature_enabled |-> TRUE,
     user_name |-> Str(<<"default_user">>), retry_attempts |-> 1,
     context_length |-> 200000, output_type |-> Str(<<"string">>),
     streaming_on |-> FALSE, tags |-> <<Str(<<"api_created">>)>>]

create_agent_request(self, args) ==
    PostEv(AgentUrl, ("api-key" :> strip(self.api_key)) @@ JsonHeaders, agent_config(args))

\* 'agent_id' not in result (a list of dicts holds no such element)
lacks_agent_id(result) == IF result.ty = "dict" THEN "agent_id" \notin DOMAIN result.d ELSE TRUE

\* response.status_code == 401
unauthorized(response) == response.status_code = 401

\* a single re-provisioning only
attempts_remain_first_only(at) == at < max_attempts - 2

\* the last attempt re-provisions too
attempts_remain_on_last_too(at) == at <= max_attempts - 1

\* attempt < max_attempts - 1
attempts_remain(at) == at < max_attempts - 1

\* the last attempt taken for the one after it
is_last_attempt_off_by_one(at) == at = max_attempts

\* attempt == max_attempts - 1
is_last_attempt(at) == at = max_attempts - 1

\* the last attempt's exception wrapped in a new one instead of re-raised
create_agent_except_wraps(flow, at) ==
    IF flow.kind # "raise" THEN flow
    ELSE IF at # max_attempts - 1 THEN Continue
    ELSE Raised(Exc("Exception", Concat(Str(<<"Failed to create agent: ">>), flow.exc.msg), at))

\* the except clause without its re-raise: every exception is swallowed
create_agent_except_swallows(flow, at) ==
    IF flow.kind = "raise" THEN Continue ELSE flow

\* the handler of the except clause: re-raise on the last attempt, else go on
create_agent_except(flow, at) ==
    IF flow.kind = "raise" /\ ~is_last_attempt(at) THEN Continue ELSE flow

\* new_username = f"user_{random.randint(1000, 9999)}"
new_username(n) == Str(<<"user_", ToString(n)>>)

\* whether the body of the try statement calls create_user
reprovisions(at, reply) ==
    LET posted == requests_post(reply)
        handled == IF posted.kind = "raise" THEN posted
                   ELSE _handle_response(posted.result, Str(<<"Agent creation">>))
    IN  /\ handled.kind = "return"
        /\ lacks_agent_id(handled.result)
        /\ unauthorized(reply)
        /\ attempts_remain(at)

\* the body of the try statement of one iteration
create_agent_try(self, at, reply, username, user_reply) ==
    LET posted == requests_post(reply)
        handled == IF posted.kind = "raise" THEN posted
                   ELSE _handle_response(posted.result, Str(<<"Agent creation">>))
        created == create_user(self, username, user_reply)
    IN  IF handled.kind = "raise"
        THEN [self |-> self, flow |-> Stamp(handled, at), events |-> <<ReplyEv(reply)>>]
        ELSE IF ~lacks_agent_id(handled.result)
        THEN [self |-> self, flow |-> Returned(handled.result), events |-> <<ReplyEv(reply)>>]
        ELSE IF ~unauthorized(reply)
        THEN [self |-> self,
              flow |-> Raised(Exc("Exception",
                                  Str(<<"Agent creation failed; no agent_id in response.">>), at)),
              events |-> <<ReplyEv(reply)>>]
        ELSE IF ~attempts_remain(at)
        THEN [self |-> self,
              flow |-> Raised(Exc("Exception",
                                  Str(<<"API Key remains invalid after multiple attempts.">>), at)),
              events |-> <<ReplyEv(reply)>>]
        ELSE [self |-> created.self,
              flow |-> IF created.out.kind = "raise" THEN Stamp(created.out, at) ELSE Continue,
              events |-> <<ReplyEv(reply)>> \o created.events]

\* one iteration of the for loop
create_agent_iteration(self, args, at, reply, username, user_reply) ==
    IF ~Truthy(self.api_key)
    THEN [self |-> self,
          flow |-> Raised(Exc("Exception",
                              Str(<<"No API key available. Create a user first.">>), at)),
          events |-> <<>>]
    ELSE LET t == create_agent_try(self, at, reply, username, user_reply)
             flow == create_agent_except(t.flow, at)
         IN  [self |-> t.self,
              flow |-> flow,
              events |-> <<create_agent_request(self, args)>> \o t.events
                         \o (IF t.flow.kind = "raise" THEN <<CaughtEv(t.flow.exc)>> ELSE <<>>)]

----------------------------------------------------------------------------
(* SwarmsAPIClient.generate_completion *)

Delay == 5

\* the client's stored api_key sent in place of the one the caller passed
completion_headers_stored(self, key) ==
    ("api-key" :> strip(self.api_key)) @@ JsonHeaders @@ ("OpenAI-API-Key" :> self.openai_api_key)

completion_headers(self, key) ==
    ("api-key" :> strip(key)) @@ JsonHeaders @@ ("OpenAI-API-Key" :> self.openai_api_key)

completion_body(agent_id, prompt) == [prompt |-> prompt, agent_id |-> agent_id]

\* the "None" sentinel taken for a missing agent as well
detail_not_found_or_no_answer(result) ==
    \/ startswith(Get(result.d, "detail", Str(<<>>)), Str(<<"Error processing completion: 404">>))
    \/ Get(result.d, "response", Str(<<>>)) = Str(<<"None">>)

\* result.get('detail', '').startswith('Error processing completion: 404')
detail_not_found(result) == startswith(Get(result.d, "detail", Str(<<>>)), NotFoundSignature)

\* a delay and another round after the last attempt too
retries_remain_off_by_one(at, max_retries) == at < max_retries

\* attempt < max_retries - 1
retries_remain(at, max_retries) == at < max_retries - 1

\* attempt == max_retries - 1
is_last_retry(at, max_retries) == at = max_retries - 1

\* the body of the try statement of one iteration
generate_completion_try(locals, at, reply) ==
    LET posted == requests_post(reply)
        handled == IF posted.kind = "raise" THEN posted
                   ELSE _handle_response(posted.result, Str(<<"Completion generation">>))
    IN  IF handled.kind = "raise"
        THEN [flow |-> Stamp(handled, at), events |-> <<>>]
        ELSE IF handled.result.ty # "dict"
        THEN [flow |-> Stamp(Raised(AttributeError("'list' object has no attribute 'get'")), at),
              events |-> <<>>]
        ELSE IF Get(handled.result.d, "detail", Str(<<>>)).ty # "str"
        THEN [flow |-> Stamp(Raised(AttributeError("'list' object has no attribute 'startswith'")), at),
              events |-> <<>>]
        ELSE IF ~detail_not_found(handled.result)
        THEN [flow |-> Returned(handled.result), events |-> <<>>]
        ELSE IF retries_remain(at, locals.max_retries)
        THEN [flow |-> Continue, events |-> <<SleepEv(Delay)>>]
        ELSE [flow |-> Raised(Exc("Exception",
                                  Concat(Concat(Str(<<"Agent ">>), locals.agent_id),
                                         Str(<<" still not found after retries.">>)), at)),
              events |-> <<>>]

\* the except clause without its delay
generate_completion_except_no_delay(flow, at, max_retries) ==
    IF flow.kind # "raise" \/ at = max_retries - 1
    THEN [flow |-> flow, events |-> <<>>]
    ELSE [flow |-> Continue, events |-> <<CaughtEv(flow.exc)>>]

\* the handler of the except clause
generate_completion_except(flow, at, max_retries) ==
    IF flow.kind # "raise" \/ is_last_retry(at, max_retries)
    THEN [flow |-> flow, events |-> <<>>]
    ELSE [flow |-> Continue, events |-> <<CaughtEv(flow.exc), SleepEv(Delay)>>]

\* one iteration of the for loop
generate_completion_iteration(locals, at, reply) ==
    LET t == generate_completion_try(locals, at, reply)
        h == generate_completion_except(t.flow, at, locals.max_retries)
    IN  [flow |-> h.flow,
         events |-> <<PostEv(locals.endpoint, locals.headers, locals.body), ReplyEv(reply)>>
                    \o t.events \o h.events]

----------------------------------------------------------------------------
(* The state machine *)

\* the largest max_retries a caller passes
MaxRetries == 3

\* the values random.randint(1000, 9999) is drawn from
RandomInts == {1000, 9999}

\* what the environment may hold under OPENAI_API_KEY
Environs == {None, K_empty, Str(<<"sk">>)}

\* the credentials a caller may assign to client.api_key
CallerKeys == {K_a, K_b_padded, K_blank, K_empty, None}

\* the credentials a caller may pass to generate_completion
PerCallKeys == {K_a, K_b_padded}

\* the default of __init__'s base_url, and another one
DefaultBaseUrl == Str(<<"https://api.swarms.ai/v1">>)
OtherBaseUrl == Str(<<"http://localhost:8000">>)

\* the arguments a caller may construct the client with; main() passes debug=True
MainConstructorArgs == [base_url |-> DefaultBaseUrl, debug |-> TRUE]
ConstructorArgs == {MainConstructorArgs, [base_url |-> OtherBaseUrl, debug |-> FALSE]}

NoFrame == [method |-> "none"]
Unsaved == [written |-> FALSE, content |-> EmptyDict]

Self == [api_key |-> api_key, user_id |-> user_id, openai_api_key |-> openai_api_key]

Init ==
    /\ environ \in Environs
    /\ caller \in {"free", "main"}
    /\ client = "none"
    /\ base_url = None
    /\ debug = FALSE
    /\ api_key = None
    /\ openai_api_key = None
    /\ user_id = None
    /\ op = "idle"
    /\ attempt = 0
    /\ frame = NoFrame
    /\ trace = <<>>
    /\ outcome = Pending
    /\ main_pc = (IF caller = "main" THEN "start" ELSE "off")
    /\ result_json = EmptyDict
    /\ saved = Unsaved

\* the secret tested with `is None`: an empty secret passes
init_rejects_none_only(args) ==
    /\ client = "none"
    /\ caller = "main" => args = MainConstructorArgs
    /\ base_url' = args.base_url
    /\ debug' = args.debug
    /\ api_key' = environ
    /\ openai_api_key' = environ
    /\ user_id' = None
    /\ IF environ = None
       THEN /\ client' = "failed"
            /\ outcome' = Raised(Exc("ValueError",
                                     Str(<<"OPENAI_API_KEY environment variable is not set.">>), 0))
            /\ main_pc' = (IF caller = "main" THEN "crashed" ELSE main_pc)
       ELSE /\ client' = "live"
            /\ outcome' = Pending
            /\ main_pc' = (IF caller = "main" THEN "step1" ELSE main_pc)
    /\ UNCHANGED <<environ, caller, op, attempt, frame, trace, result_json, saved>>

\* SwarmsAPIClient.__init__, called by main() or by another caller
__init__(args) ==
    /\ client = "none"
    /\ caller = "main" => args = MainConstructorArgs
    /\ base_url' = args.base_url
    /\ debug' = args.debug
    /\ api_key' = environ
    /\ openai_api_key' = environ
    /\ user_id' = None
    /\ IF ~Truthy(environ)
       THEN /\ client' = "failed"
            /\ outcome' = Raised(Exc("ValueError",
                                     Str(<<"OPENAI_API_KEY environment variable is not set.">>), 0))
            /\ main_pc' = (IF caller = "main" THEN "crashed" ELSE main_pc)
       ELSE /\ client' = "live"
            /\ outcome' = Pending
            /\ main_pc' = (IF caller = "main" THEN "step1" ELSE main_pc)
    /\ UNCHANGED <<environ, caller, op, attempt, frame, trace, result_json, saved>>

\* the caller other than main() is between two calls
FreeCaller == caller = "free" /\ client = "live" /\ op = "idle"

\* main() is at position pc, between two calls
MainAt(pc) == caller = "main" /\ client = "live" /\ op = "idle" /\ main_pc = pc

\* main() is at position pc and the call it made has ended
MainGot(pc) == caller = "main" /\ op = "ended" /\ main_pc = pc

\* the call has ended and its caller goes on with what it gave
leave_call ==
    /\ op' = "idle"
    /\ frame' = NoFrame
    /\ trace' = <<>>
    /\ outcome' = Pending
    /\ attempt' = 0

\* a whole call of create_user
enter_create_user(username, reply) ==
    /\ LET r == create_user(Self, username, reply)
       IN  /\ api_key' = r.self.api_key
           /\ user_id' = r.self.user_id
           /\ trace' = r.events
           /\ outcome' = r.out
    /\ frame' = [method |-> "create_user", username |-> username]
    /\ op' = "ended"
    /\ attempt' = 0

\* a whole call of create_api_key
enter_create_api_key(uid, reply) ==
    /\ LET r == create_api_key(Self, uid, reply)
       IN  /\ trace' = r.events
           /\ outcome' = r.out
    /\ frame' = [method |-> "create_api_key", user_id |-> uid]
    /\ op' = "ended"
    /\ attempt' = 0

\* create_agent is entered
enter_create_agent(name, system_prompt, model_name, temperature) ==
    /\ op' = "create_agent"
    /\ attempt' = 0
    /\ frame' = [method |-> "create_agent", agent_name |-> name,
                 system_prompt |-> system_prompt, model_name |-> model_name,
                 temperature |-> temperature]
    /\ trace' = <<>>
    /\ outcome' = Pending

\* generate_completion up to its loop
enter_generate_completion(key, agent_id, prompt, max_retries) ==
    /\ trace' = <<>>
    /\ attempt' = 0
    /\ IF ~Truthy(api_key)
       THEN /\ frame' = [method |-> "generate_completion", max_retries |-> max_retries]
            /\ op' = "ended"
            /\ outcome' = Raised(Exc("Exception",
                                     Str(<<"No API key available. Ensure a user is created.">>), 0))
       ELSE /\ frame' = [method |-> "generate_completion",
                         endpoint |-> CompletionsUrl,
                         headers |-> completion_headers(Self, key),
                         body |-> completion_body(agent_id, prompt),
                         api_key |-> key,
                         agent_id |-> agent_id,
                         max_retries |-> max_retries]
            /\ IF max_retries > 0
               THEN op' = "generate_completion" /\ outcome' = Pending
               ELSE op' = "ended" /\ outcome' = Returned(None)

\* how an iteration of a retry loop of `limit` iterations goes on
loop_step(flow, limit) ==
    IF flow.kind = "continue"
    THEN IF attempt + 1 < limit
         THEN attempt' = attempt + 1 /\ UNCHANGED <<op, outcome>>
         ELSE op' = "ended" /\ outcome' = Returned(None) /\ UNCHANGED attempt
    ELSE op' = "ended" /\ outcome' = flow /\ UNCHANGED attempt

\* one iteration of create_agent's loop; the service answers with reply and,
\* when the iteration calls create_user, with user_reply
create_agent_step(reply) ==
    /\ op = "create_agent"
    /\ LET calls_user == Truthy(api_key) /\ reprovisions(attempt, reply)
       IN  \E n \in (IF calls_user THEN RandomInts ELSE {1000}) :
           \E user_reply \in (IF calls_user THEN UserReplies ELSE {NetError}) :
              LET r == create_agent_iteration(Self, frame, attempt, reply,
                                              new_username(n), user_reply)
              IN  /\ api_key' = r.self.api_key
                  /\ user_id' = r.self.user_id
                  /\ trace' = trace \o r.events
                  /\ loop_step(r.flow, max_attempts)
    /\ UNCHANGED <<clientVars, mainVars, caller, frame>>

\* one iteration of generate_completion's loop
generate_completion_step(reply) ==
    /\ op = "generate_completion"
    /\ LET r == generate_completion_iteration(frame, attempt, reply)
       IN  /\ trace' = trace \o r.events
           /\ loop_step(r.flow, frame.max_retries)
    /\ UNCHANGED <<clientVars, mainVars, caller, frame, api_key, user_id>>

----------------------------------------------------------------------------
(* A caller other than main(): any call, in any order *)

call_create_user(username, reply) ==
    /\ FreeCaller
    /\ enter_create_user(username, reply)
    /\ UNCHANGED <<clientVars, mainVars, caller>>

call_create_api_key(uid, reply) ==
    /\ FreeCaller
    /\ enter_create_api_key(uid, reply)
    /\ UNCHANGED <<clientVars, mainVars, caller, api_key, user_id>>

\* the caller assigns client.api_key, as main() does with the created key
assign_api_key(key) ==
    /\ FreeCaller
    /\ api_key' = key
    /\ UNCHANGED <<clientVars, mainVars, caller, op, attempt, frame, trace, outcome, user_id>>

call_create_agent ==
    /\ FreeCaller
    /\ enter_create_agent(Str(<<"Agent_x">>), Str(<<"You are a helpful AI assistant.">>),
                          Str(<<"gpt-4">>), Str(<<"0.7">>))
    /\ UNCHANGED <<clientVars, mainVars, caller, api_key, user_id>>

call_generate_completion(key, max_retries) ==
    /\ FreeCaller
    /\ enter_generate_completion(key, A_1, Str(<<"What is the capital of France?">>), max_retries)
    /\ UNCHANGED <<clientVars, mainVars, caller, api_key, user_id>>

\* the call has ended and the caller has its result
returned_to_caller ==
    /\ caller = "free"
    /\ op = "ended"
    /\ leave_call
    /\ UNCHANGED <<clientVars, mainVars, caller, api_key, user_id>>

----------------------------------------------------------------------------
(* main() *)

\* the default of generate_completion's max_retries
default_max_retries == 3

main_username(n) == Str(<<"swarms_user_", ToString(n)>>)
main_agent_name == Concat(Str(<<"Agent_">>), result_json["user"].username)
completion_prompt == Str(<<"What is the capital of France?">>)

\* the outer except clause: the error is printed and main() ends
main_reports ==
    /\ main_pc' = "reported"
    /\ UNCHANGED <<result_json, saved>>

\* Step 1: client.create_user(username)
main_step1(n, reply) ==
    /\ MainAt("step1")
    /\ enter_create_user(main_username(n), reply)
    /\ main_pc' = "after_user"
    /\ UNCHANGED <<clientVars, caller, result_json, saved>>

\* a failure of create_user is not looked at: main() goes on to Step 2
main_after_user_goes_on ==
    /\ MainGot("after_user")
    /\ leave_call
    /\ result_json' = ("user" :> [username |-> frame.username,
                                  api_key |-> api_key, user_id |-> user_id])
    /\ main_pc' = "step2"
    /\ UNCHANGED saved
    /\ UNCHANGED <<clientVars, caller, api_key, user_id>>

main_after_user ==
    /\ MainGot("after_user")
    /\ leave_call
    /\ IF outcome.kind = "raise"
       THEN main_reports
       ELSE /\ result_json' = ("user" :> [username |-> frame.username,
                                          api_key |-> api_key, user_id |-> user_id])
            /\ main_pc' = "step2"
            /\ UNCHANGED saved
    /\ UNCHANGED <<clientVars, caller, api_key, user_id>>

\* Step 2: client.create_api_key(client.user_id)
main_step2(reply) ==
    /\ MainAt("step2")
    /\ enter_create_api_key(user_id, reply)
    /\ main_pc' = "after_key"
    /\ UNCHANGED <<clientVars, caller, api_key, user_id, result_json, saved>>

\* client.api_key = api_key_result.get('key')
main_after_key ==
    /\ MainGot("after_key")
    /\ leave_call
    /\ IF outcome.kind = "raise" \/ outcome.result.ty # "dict"
       THEN main_reports /\ UNCHANGED api_key
       ELSE /\ api_key' = Get(outcome.result.d, "key", None)
            /\ main_pc' = "step3"
            /\ UNCHANGED <<result_json, saved>>
    /\ UNCHANGED <<clientVars, caller, user_id>>

\* Step 3: client.create_agent(...)
main_step3 ==
    /\ MainAt("step3")
    /\ enter_create_agent(main_agent_name,
                          Str(<<"You are an AI specialized in answering questions about geography.">>),
                          Str(<<"gpt-4">>), Str(<<"0.7">>))
    /\ main_pc' = "after_agent"
    /\ UNCHANGED <<clientVars, caller, api_key, user_id, result_json, saved>>

\* if 'agent_id' in agent_result: ...
main_after_agent ==
    /\ MainGot("after_agent")
    /\ leave_call
    /\ IF outcome.kind = "raise" \/ outcome.result.ty # "dict"
       THEN main_reports
       ELSE IF lacks_agent_id(outcome.result)
       THEN main_pc' = "done" /\ UNCHANGED <<result_json, saved>>
       ELSE /\ result_json' = result_json @@
                              ("agent" :> [agent_id |-> outcome.result.d["agent_id"],
                                           agent_name |-> main_agent_name])
            /\ main_pc' = "step4"
            /\ UNCHANGED saved
    /\ UNCHANGED <<clientVars, caller, api_key, user_id>>

\* Step 4: client.generate_completion(client.api_key, agent_id, completion_prompt)
main_step4 ==
    /\ MainAt("step4")
    /\ enter_generate_completion(api_key, result_json["agent"].agent_id, completion_prompt,
                                 default_max_retries)
    /\ main_pc' = "after_completion"
    /\ UNCHANGED <<clientVars, caller, api_key, user_id, result_json, saved>>

\* the completion entry main() records for what generate_completion gave
completion_entry(out) ==
    IF out.kind = "raise"
    THEN [prompt |-> completion_prompt, response |-> Concat(Str(<<"Error: ">>), out.exc.msg)]
    ELSE IF out.result.ty # "dict"
    THEN [prompt |-> completion_prompt,
          response |-> Str(<<"Error: ", "'NoneType' object has no attribute 'get'">>)]
    ELSE [prompt |-> completion_prompt,
          response |-> IF Get(out.result.d, "response", None) = Str(<<"None">>)
                       THEN Str(<<"API returned no response">>)
                       ELSE Get(out.result.d, "response", Str(<<"No response">>)),
          metadata |-> Get(out.result.d, "metadata", Dict(EmptyDict)),
          timestamp |-> Get(out.result.d, "timestamp", None),
          processing_time |-> Get(out.result.d, "processing_time", None),
          token_usage |-> Get(out.result.d, "token_usage", Dict(EmptyDict))]

\* a failed completion ends main() in the outer except clause: nothing is written
main_after_completion_aborts ==
    /\ MainGot("after_completion")
    /\ leave_call
    /\ IF outcome.kind = "raise"
       THEN main_reports
       ELSE /\ result_json' = result_json @@ ("completion" :> completion_entry(outcome))
            /\ saved' = [written |-> TRUE, content |-> result_json']
            /\ main_pc' = "done"
    /\ UNCHANGED <<clientVars, caller, api_key, user_id>>

\* the completion is recorded and result_json is written to the file
main_after_completion ==
    /\ MainGot("after_completion")
    /\ leave_call
    /\ result_json' = result_json @@ ("completion" :> completion_entry(outcome))
    /\ saved' = [written |-> TRUE, content |-> result_json']
    /\ main_pc' = "done"
    /\ UNCHANGED <<clientVars, caller, api_key, user_id>>

----------------------------------------------------------------------------

Next ==
    \/ \E args \in ConstructorArgs : __init__(args)
    \/ \E n \in RandomInts, reply \in UserReplies : call_create_user(new_username(n), reply)
    \/ \E reply \in KeyReplies : call_create_api_key(user_id, reply)
    \/ \E key \in CallerKeys : assign_api_key(key)
    \/ call_create_agent
    \/ \E key \in PerCallKeys, max_retries \in 0..MaxRetries : call_generate_completion(key, max_retries)
    \/ returned_to_caller
    \/ \E reply \in AgentReplies : create_agent_step(reply)
    \/ \E reply \in CompletionReplies : generate_completion_step(reply)
    \/ \E n \in RandomInts, reply \in UserReplies : main_step1(n, reply)
    \/ main_after_user
    \/ \E reply \in KeyReplies : main_step2(reply)
    \/ main_after_key
    \/ main_step3
    \/ main_after_agent
    \/ main_step4
    \/ main_after_completion

Spec == Init /\ [][Next]_vars

----------------------------------------------------------------------------
(* What an invocation did, read from its trace *)

\* the requests sent to url, in order
PostsTo(url) == SelectSeq(trace, LAMBDA e : e.ev = "post" /\ e.url = url)

\* the replies to the requests sent to url, in order
AnswersTo(url) ==
    LET F[i \in 0..Len(trace)] ==
            IF i = 0 THEN <<>>
            ELSE IF i > 1 /\ trace[i].ev = "reply" /\ trace[i-1].ev = "post" /\ trace[i-1].url = url
            THEN Append(F[i-1], trace[i].reply)
            ELSE F[i-1]
    IN  F[Len(trace)]

\* the delays taken, in order
Sleeps == SelectSeq(trace, LAMBDA e : e.ev = "sleep")

\* the position in the trace of the n-th request sent to url
PositionOfPost(url, n) ==
    CHOOSE i \in 1..Len(trace) :
        /\ trace[i].ev = "post" /\ trace[i].url = url
        /\ Cardinality({j \in 1..i : trace[j].ev = "post" /\ trace[j].url = url}) = n

InCreateAgent == frame.method = "create_agent"
InGenerateCompletion == frame.method = "generate_completion" /\ "headers" \in DOMAIN frame
Ended == op = "ended"

\* the service rejects the request as unauthorized: 401, a JSON body, no agent identifier
UnauthorizedReply(r) ==
    /\ r.net = "ok" /\ r.status_code = 401 /\ r.content = "json"
    /\ (r.json.ty = "dict" => "agent_id" \notin DOMAIN r.json.d)

\* the service answers with a JSON object that holds an agent identifier
AgentCreatedReply(r) ==
    r.net = "ok" /\ r.status_code # 204 /\ r.content = "json" /\ r.json.ty = "dict"
    /\ "agent_id" \in DOMAIN r.json.d

\* a JSON body, a status other than 401, no agent identifier
MalformedReply(r) ==
    /\ r.net = "ok" /\ r.status_code \notin {401, 204} /\ r.content = "json"
    /\ (r.json.ty = "dict" => "agent_id" \notin DOMAIN r.json.d)

\* create_user's request is answered with a JSON object holding a non-empty api_key
UserCreatedReply(r) ==
    r.net = "ok" /\ r.status_code # 204 /\ r.content = "json" /\ r.json.ty = "dict"
    /\ "api_key" \in DOMAIN r.json.d /\ r.json.d["api_key"].ty = "str"
    /\ r.json.d["api_key"].s # <<>>

\* a JSON object whose detail text starts with the not-found signature
NotFoundReply(r) ==
    r.net = "ok" /\ r.status_code # 204 /\ r.content = "json" /\ r.json.ty = "dict"
    /\ "detail" \in DOMAIN r.json.d /\ r.json.d["detail"].ty = "str"
    /\ Len(r.json.d["detail"].s) >= 1
    /\ r.json.d["detail"].s[1] = "Error processing completion: 404"

\* a JSON object whose detail, if it has one, is a text without the signature at its start
WellFormedReply(r) ==
    r.net = "ok" /\ r.status_code # 204 /\ r.content = "json" /\ r.json.ty = "dict"
    /\ ("detail" \in DOMAIN r.json.d => r.json.d["detail"].ty = "str")
    /\ ~NotFoundReply(r)

\* a well-formed reply whose response field is the "None" sentinel
SentinelReply(r) ==
    WellFormedReply(r) /\ "response" \in DOMAIN r.json.d /\ r.json.d["response"] = Str(<<"None">>)

TransportFailure(r) == r.net = "error"

AgentAnswers == AnswersTo(AgentUrl)
UserAnswers == AnswersTo(UsersUrl)
CompletionAnswers == AnswersTo(CompletionsUrl)

----------------------------------------------------------------------------
(* C1: one invocation of create_agent sends at most 3 agent-creation       *)
(* requests, whatever the service answers and whatever fails.              *)
C1_AtMostThreeRequests ==
    InCreateAgent => Len(PostsTo(AgentUrl)) <= 3

\* an invocation that has sent its third request and ended
C1_Witness ==
    InCreateAgent /\ Ended /\ Len(PostsTo(AgentUrl)) = 3

(* C2: answered [unauthorized, unauthorized, success], with every          *)
(* re-provisioning create_user call succeeding with a non-empty api_key,   *)
(* create_agent returns the successful response and has issued exactly 2   *)
(* user-creation calls.                                                    *)
C2_Script ==
    /\ InCreateAgent
    /\ Len(AgentAnswers) = 3
    /\ UnauthorizedReply(AgentAnswers[1])
    /\ UnauthorizedReply(AgentAnswers[2])
    /\ AgentCreatedReply(AgentAnswers[3])
    /\ \A i \in 1..Len(UserAnswers) : UserCreatedReply(UserAnswers[i])

C2_SucceedsAfterTwoReprovisions ==
    C2_Script =>
        /\ Ended
        /\ outcome = Returned(AgentAnswers[3].json)
        /\ Len(PostsTo(UsersUrl)) = 2

C2_Witness ==
    C2_Script /\ Ended /\ Len(PostsTo(UsersUrl)) = 2

(* C3: when all three agent-creation requests are answered unauthorized    *)
(* (401, no agent identifier), create_agent fails with the error that the  *)
(* credential remained invalid, and no create_user call follows the third  *)
(* rejection.                                                              *)
C3_Script ==
    /\ InCreateAgent
    /\ Len(AgentAnswers) = 3
    /\ \A i \in 1..3 : UnauthorizedReply(AgentAnswers[i])

C3_ExhaustedAfterThreeRejections ==
    C3_Script =>
        /\ Ended
        /\ outcome.kind = "raise"
        /\ outcome.exc.msg = Str(<<"API Key remains invalid after multiple attempts.">>)
        /\ \A i \in PositionOfPost(AgentUrl, 3)..Len(trace) :
              ~(trace[i].ev = "post" /\ trace[i].url = UsersUrl)

C3_Witness ==
    C3_Script /\ Ended /\ outcome.kind = "raise"

(* C4: a parsed response that is not an authentication rejection and lacks *)
(* an agent identifier makes create_agent fail at once with the            *)
(* malformed-response error, on whatever attempt, and no further           *)
(* agent-creation request is sent.                                         *)
C4_MalformedIsFatal ==
    InCreateAgent =>
        \A i \in 1..Len(AgentAnswers) :
            MalformedReply(AgentAnswers[i]) =>
                /\ i = Len(AgentAnswers)
                /\ Ended
                /\ outcome.kind = "raise"
                /\ outcome.exc.msg = Str(<<"Agent creation failed; no agent_id in response.">>)

(* C5: when the first k attempts of generate_completion fail retryably     *)
(* (not-found signature or transport exception, in any mix) and attempt    *)
(* k+1 gets a well-formed response without the signature, it returns that  *)
(* response after exactly k+1 requests and exactly k delays of 5, with no  *)
(* delay after the last attempt.                                           *)
C5_Script(k) ==
    /\ InGenerateCompletion
    /\ frame.max_retries >= 1
    /\ k < frame.max_retries
    /\ Len(CompletionAnswers) = k + 1
    /\ \A i \in 1..k : NotFoundReply(CompletionAnswers[i]) \/ TransportFailure(CompletionAnswers[i])
    /\ WellFormedReply(CompletionAnswers[k + 1])

C5_ReturnsAfterKDelays ==
    \A k \in 0..Len(CompletionAnswers) :
        C5_Script(k) =>
            /\ Ended
            /\ outcome = Returned(CompletionAnswers[k + 1].json)
            /\ Len(PostsTo(CompletionsUrl)) = k + 1
            /\ Len(Sleeps) = k
            /\ \A i \in 1..Len(Sleeps) : Sleeps[i].secs = 5
            /\ trace[Len(trace)].ev # "sleep"

\* two failures of different kinds, then success on the third attempt
C5_Witness ==
    /\ C5_Script(2)
    /\ Ended
    /\ NotFoundReply(CompletionAnswers[1])
    /\ TransportFailure(CompletionAnswers[2])
    /\ Len(Sleeps) = 2

(* C6: when every one of the max_retries attempts is answered with the     *)
(* not-found signature, generate_completion fails with the error that the  *)
(* agent was still not found, after exactly max_retries requests and       *)
(* max_retries - 1 delays; it never returns a not-found response.          *)
C6_Script ==
    /\ InGenerateCompletion
    /\ frame.max_retries >= 1
    /\ Len(CompletionAnswers) = frame.max_retries
    /\ \A i \in 1..Len(CompletionAnswers) : NotFoundReply(CompletionAnswers[i])

C6_NotFoundExhausts ==
    /\ C6_Script =>
          /\ Ended
          /\ outcome.kind = "raise"
          /\ outcome.exc.msg = Str(<<"Agent ", "agent-1", " still not found after retries.">>)
          /\ Len(PostsTo(CompletionsUrl)) = frame.max_retries
          /\ Len(Sleeps) = frame.max_retries - 1
    /\ (InGenerateCompletion /\ Ended /\ outcome.kind = "return") =>
          \A i \in 1..Len(CompletionAnswers) :
              NotFoundReply(CompletionAnswers[i]) => outcome.result # CompletionAnswers[i].json

C6_Witness ==
    C6_Script /\ Ended /\ frame.max_retries = 3 /\ Len(Sleeps) = 2

(* C7: a well-formed response whose response field is the "None" sentinel  *)
(* is returned unchanged as a normal result on that attempt: no error, no  *)
(* delay after it and no further request.                                  *)
C7_SentinelIsReturned ==
    InGenerateCompletion =>
        \A i \in 1..Len(CompletionAnswers) :
            SentinelReply(CompletionAnswers[i]) =>
                /\ i = Len(CompletionAnswers)
                /\ Ended
                /\ outcome = Returned(CompletionAnswers[i].json)
                /\ trace[Len(trace)] = ReplyEv(CompletionAnswers[i])

C7_Witness ==
    /\ InGenerateCompletion
    /\ Ended
    /\ Len(CompletionAnswers) = 2
    /\ SentinelReply(CompletionAnswers[2])

(* C8: a transport exception on the final allowed attempt of create_agent  *)
(* (attempt 3) or generate_completion (attempt max_retries) ends the       *)
(* invocation by raising that same exception; a transport exception on an  *)
(* earlier attempt does not end the invocation.                            *)
TransportException(at) == Exc("ConnectionError", Str(<<"connection failed">>), at)

C8_Case(answers, limit) ==
    (Len(answers) >= 1 /\ TransportFailure(answers[Len(answers)])) =>
        IF Len(answers) = limit
        THEN Ended /\ outcome = Raised(TransportException(limit - 1))
        ELSE op = frame.method /\ attempt = Len(answers) /\ outcome = Pending

C8_FinalTransportFailurePropagates ==
    /\ InCreateAgent => C8_Case(AgentAnswers, 3)
    /\ InGenerateCompletion => C8_Case(CompletionAnswers, frame.max_retries)

\* create_agent ends on a transport exception of its third attempt, after one on its first
C8_Witness ==
    /\ InCreateAgent /\ Ended
    /\ Len(AgentAnswers) = 3
    /\ TransportFailure(AgentAnswers[1])
    /\ TransportFailure(AgentAnswers[3])

\* generate_completion ends on a transport exception of its last attempt
C8_WitnessCompletion ==
    /\ InGenerateCompletion /\ Ended
    /\ Len(CompletionAnswers) = 3
    /\ TransportFailure(CompletionAnswers[1])
    /\ TransportFailure(CompletionAnswers[3])

(* C9: every agent-creation request of create_agent carries a non-empty    *)
(* credential header; with an absent or empty stored api_key at the start  *)
(* of an attempt create_agent fails with the no-credential error without   *)
(* sending a request.                                                      *)
C9_CredentialHeaderNonEmpty ==
    InCreateAgent =>
        \A i \in 1..Len(trace) :
            (trace[i].ev = "post" /\ trace[i].url = AgentUrl) =>
                /\ trace[i].headers["api-key"].ty = "str"
                /\ trace[i].headers["api-key"].s # <<>>

(* C10: create_api_key never sends its request, and never completes        *)
(* successfully, while the stored api_key is absent or empty.              *)
C10_NoKeyRequestWithoutCredential ==
    (frame.method = "create_api_key" /\ ~Truthy(api_key)) =>
        /\ \A i \in 1..Len(trace) : trace[i].ev # "post"
        /\ outcome.kind # "return"

(* C11: after every create_user call that returns (called directly, by     *)
(* main() or by create_agent's re-provisioning), the stored api_key and    *)
(* user_id are exactly the api_key and user_id fields of that call's       *)
(* response (None for a field the response lacks), whatever was stored.    *)

\* create_user's request is answered with a JSON object (or with 204, read as {})
UserCallReturns(r) ==
    r.net = "ok" /\ (r.status_code = 204 \/ (r.content = "json" /\ r.json.ty = "dict"))

\* the field of the JSON object of reply r, None when it has none
FieldOf(r, key) ==
    IF r.status_code # 204 /\ key \in DOMAIN r.json.d THEN r.json.d[key] ELSE None

C11_StoredEqualsResponseFields ==
    (frame.method \in {"create_user", "create_agent"} /\ Len(UserAnswers) >= 1) =>
        LET r == UserAnswers[Len(UserAnswers)]
        IN  UserCallReturns(r) =>
                /\ api_key = FieldOf(r, "api_key")
                /\ user_id = FieldOf(r, "user_id")
                /\ frame.method = "create_user" => outcome = Returned(r.json)

\* a second re-provisioning replaces what the first one installed
C11_Witness ==
    /\ InCreateAgent
    /\ Len(UserAnswers) = 2
    /\ UserCreatedReply(UserAnswers[1])
    /\ UserCreatedReply(UserAnswers[2])
    /\ FieldOf(UserAnswers[1], "api_key") # FieldOf(UserAnswers[2], "api_key")
    /\ FieldOf(UserAnswers[1], "user_id") # FieldOf(UserAnswers[2], "user_id")
    /\ api_key = FieldOf(UserAnswers[2], "api_key")
    /\ user_id = FieldOf(UserAnswers[2], "user_id")

(* C12: when the user-creation request fails by transport error or is      *)
(* answered with a non-2xx status, create_user fails with the              *)
(* user-creation-failed error after exactly one request and does not       *)
(* report success to its caller.                                           *)
C12_FailureIsSurfacedOnce ==
    (frame.method = "create_user" /\ Ended /\ Len(UserAnswers) = 1) =>
        LET r == UserAnswers[1]
        IN  (TransportFailure(r) \/ r.status_code \notin 200..299) =>
                /\ outcome.kind = "raise"
                /\ startswith(outcome.exc.msg, Str(<<"Failed to create user: ">>))
                /\ Len(PostsTo(UsersUrl)) = 1

(* C13: constructing the client while the required secret is absent (or    *)
(* empty) always fails with the configuration error, whatever base URL and *)
(* debug flag are given; no client instance results and no request is      *)
(* sent.                                                                   *)
ConfigurationError ==
    Exc("ValueError", Str(<<"OPENAI_API_KEY environment variable is not set.">>), 0)

C13_NoSecretNoClient ==
    ~(environ.ty = "str" /\ environ.s # <<>>) =>
        /\ client \in {"none", "failed"}
        /\ client = "failed" => outcome = Raised(ConfigurationError)
        /\ op = "idle"
        /\ trace = <<>>
        /\ main_pc \in {"off", "start", "crashed"}

\* the construction has failed with arguments other than the defaults
C13_Witness ==
    /\ environ = None
    /\ client = "failed"
    /\ base_url = OtherBaseUrl
    /\ debug = FALSE
    /\ outcome = Raised(ConfigurationError)

\* the key-creation requests of the invocation, in order
KeyPosts ==
    SelectSeq(trace, LAMBDA e : e.ev = "post" /\ e.url \notin {UsersUrl, AgentUrl, CompletionsUrl})

(* C14, as stated: in a run of main() each operation's requests are sent   *)
(* only while main() is in that operation's step, so no user-creation or   *)
(* key-creation request is sent once a later operation has started.        *)
C14_NoEarlierRequestOnceLaterStarted ==
    caller = "main" =>
        /\ PostsTo(UsersUrl) # <<>> => main_pc = "after_user"
        /\ KeyPosts # <<>> => main_pc = "after_key"
        /\ PostsTo(AgentUrl) # <<>> => main_pc = "after_agent"
        /\ PostsTo(CompletionsUrl) # <<>> => main_pc = "after_completion"

\* where main() is when each kind of request is sent
C14_RequestsByStep ==
    /\ PostsTo(UsersUrl) # <<>> =>
           \/ main_pc = "after_user" /\ frame.method = "create_user"
           \/ main_pc = "after_agent" /\ frame.method = "create_agent"
    /\ KeyPosts # <<>> => main_pc = "after_key"
    /\ PostsTo(AgentUrl) # <<>> => main_pc = "after_agent"
    /\ PostsTo(CompletionsUrl) # <<>> => main_pc = "after_completion"

\* main() calls an operation only after the previous one has returned normally
C14_StepsInOrder ==
    main_pc' # main_pc =>
        /\ main_pc' = "after_user" => main_pc = "step1"
        /\ main_pc' = "step2" =>
               main_pc = "after_user" /\ frame.method = "create_user" /\ outcome.kind = "return"
        /\ main_pc' = "after_key" => main_pc = "step2"
        /\ main_pc' = "step3" =>
               main_pc = "after_key" /\ frame.method = "create_api_key" /\ outcome.kind = "return"
        /\ main_pc' = "after_agent" => main_pc = "step3"
        /\ main_pc' = "step4" =>
               main_pc = "after_agent" /\ frame.method = "create_agent" /\ outcome.kind = "return"
        /\ main_pc' = "after_completion" => main_pc = "step4"

(* C14, amended: in a run of main() the four operations are called in the  *)
(* order create_user, create_api_key, create_agent, generate_completion,   *)
(* each only after the previous one returned normally; key-creation,       *)
(* agent-creation and completion requests are sent only during their own   *)
(* step, and user-creation requests only during Step 1 or, from            *)
(* create_agent's re-provisioning, during Step 3.                          *)
C14_StrictSequence ==
    [][caller = "main" => (C14_StepsInOrder /\ C14_RequestsByStep')]_vars

\* main() is in Step 3 and create_agent has re-provisioned and returned
C14_Witness ==
    /\ caller = "main" /\ main_pc = "after_agent" /\ Ended
    /\ Len(PostsTo(UsersUrl)) >= 1
    /\ outcome.kind = "return"

\* the entry main() records for a completion that failed with exception e
ErroredCompletion(e) ==
    [prompt |-> completion_prompt, response |-> Concat(Str(<<"Error: ">>), e.msg)]

\* one of the four operations, called by main(), has ended by raising
C15_OperationFailed ==
    /\ caller = "main" /\ Ended /\ outcome.kind = "raise"
    /\ frame.method \in {"create_user", "create_api_key", "create_agent", "generate_completion"}

\* main() has ended without an exception leaving it
C15_EndsQuietly == main_pc' \in {"reported", "done"}

\* the record holds the user and agent entries and the errored completion, and is written
C15_RecordPersisted ==
    /\ main_pc' = "done"
    /\ DOMAIN result_json' = {"user", "agent", "completion"}
    /\ result_json'["user"] = result_json["user"]
    /\ result_json'["agent"] = result_json["agent"]
    /\ result_json'["completion"] = ErroredCompletion(outcome.exc)
    /\ saved' = [written |-> TRUE, content |-> result_json']

(* C15: when one of the four operations raises during a run of main(),     *)
(* main() ends without the exception leaving it; when the operation is     *)
(* generate_completion, the record keeps its user and agent entries, gets  *)
(* a completion entry whose response is "Error: " and the message, and is  *)
(* written to the file.                                                    *)
C15_FailuresAreReported ==
    [][C15_OperationFailed =>
          /\ C15_EndsQuietly
          /\ frame.method = "generate_completion" => C15_RecordPersisted]_vars

\* main() has ended after a failed generate_completion, the record written
C15_Witness ==
    /\ caller = "main" /\ main_pc = "done"
    /\ saved.written /\ saved.content = result_json
    /\ DOMAIN result_json = {"user", "agent", "completion"}
    /\ DOMAIN result_json["completion"] = {"prompt", "response"}
    /\ result_json["completion"].response =
           Str(<<"Error: ", "Agent ", "agent-1", " still not found after retries.">>)

\* the service answers 401 and gives no agent identifier, whatever the body
RejectedUnauthorized(r) ==
    r.net = "ok" /\ r.status_code = 401 /\ ~AgentCreatedReply(r)

\* the event that follows the answer to the i-th agent-creation request is a
\* user-creation request with a synthesized username
C16_ReprovisionsAfter(i) ==
    LET p == PositionOfPost(AgentUrl, i)
    IN  /\ Len(trace) >= p + 3
        /\ trace[p + 2].ev = "post" /\ trace[p + 2].url = UsersUrl
        /\ trace[p + 2].json.username \in {new_username(n) : n \in RandomInts}

\* the (i+1)-st agent-creation request carries the api_key that the
\* re-provisioning after the i-th one was given, surrounding blanks removed
C16_NextCarriesInstalled(i) ==
    LET p == PositionOfPost(AgentUrl, i)
        q == PositionOfPost(AgentUrl, i + 1)
    IN  (UserCallReturns(trace[p + 3].reply) /\ Len(PostsTo(AgentUrl)) > i) =>
            /\ q = p + 4
            /\ trace[q].headers["api-key"] = strip(FieldOf(trace[p + 3].reply, "api_key"))

(* C16: whenever an agent-creation request of create_agent is answered 401 *)
(* and attempts remain, create_agent calls create_user with a new          *)
(* user_<n> name before the next agent-creation request, and that next     *)
(* request carries the credential the create_user call installed; the      *)
(* rejected request is one of the 3 attempts.                              *)
C16_UnauthorizedReprovisions ==
    InCreateAgent =>
        /\ Len(PostsTo(AgentUrl)) <= max_attempts
        /\ \A i \in 1..Len(AgentAnswers) :
               (RejectedUnauthorized(AgentAnswers[i]) /\ attempts_remain(i - 1)) =>
                   /\ C16_ReprovisionsAfter(i)
                   /\ C16_NextCarriesInstalled(i)

\* the same for rejections whose body is a JSON value
C16_ParsedRejectionReprovisions ==
    InCreateAgent =>
        \A i \in 1..Len(AgentAnswers) :
            (UnauthorizedReply(AgentAnswers[i]) /\ attempts_remain(i - 1)) =>
                /\ C16_ReprovisionsAfter(i)
                /\ C16_NextCarriesInstalled(i)

\* the number of agent-creation requests among the first i events
AgentPostsUpTo(i) ==
    Cardinality({j \in 1..i : trace[j].ev = "post" /\ trace[j].url = AgentUrl})

\* the i-th event is a user-creation request
UserPostAt(i) == trace[i].ev = "post" /\ trace[i].url = UsersUrl

(* C17: inside create_agent every user-creation request directly follows   *)
(* the answer to the first or second agent-creation request, and that      *)
(* answer is a 401 without an agent identifier; so an invocation sends at  *)
(* most 2 of them, and none after a transport exception, a malformed       *)
(* response or a success. create_api_key and generate_completion send      *)
(* none.                                                                   *)
C17_ReprovisionOnlyAfterRejection ==
    /\ InCreateAgent =>
           /\ Len(PostsTo(UsersUrl)) <= 2
           /\ \A i \in 1..Len(trace) :
                  UserPostAt(i) =>
                      /\ i >= 3
                      /\ trace[i - 2].ev = "post" /\ trace[i - 2].url = AgentUrl
                      /\ trace[i - 1].ev = "reply"
                      /\ RejectedUnauthorized(trace[i - 1].reply)
                      /\ AgentPostsUpTo(i) \in {1, 2}
    /\ frame.method \in {"create_api_key", "generate_completion"} =>
           PostsTo(UsersUrl) = <<>>

\* two re-provisionings, then a transport exception ends the invocation
C17_Witness ==
    /\ InCreateAgent /\ Ended
    /\ Len(PostsTo(UsersUrl)) = 2
    /\ Len(AgentAnswers) = 3
    /\ TransportFailure(AgentAnswers[3])

C19_SameOnEveryAttempt ==
    \A i, j \in 1..Len(PostsTo(CompletionsUrl)) :
        PostsTo(CompletionsUrl)[i] = PostsTo(CompletionsUrl)[j]

(* C19, as stated: every completion request of an invocation carries the   *)
(* credential the caller passed, as passed, in the api-key header and the  *)
(* construction-time secret in the OpenAI-API-Key header; headers and body *)
(* are the same on every attempt.                                          *)
C19_CarriesSuppliedCredential ==
    InGenerateCompletion =>
        /\ \A i \in 1..Len(PostsTo(CompletionsUrl)) :
               /\ PostsTo(CompletionsUrl)[i].headers["api-key"] = frame.api_key
               /\ PostsTo(CompletionsUrl)[i].headers["OpenAI-API-Key"] = environ
        /\ C19_SameOnEveryAttempt

(* C19, amended: every completion request of an invocation carries the     *)
(* credential the caller passed, with leading and trailing whitespace      *)
(* removed, in the api-key header, also when it differs from the stored    *)
(* api_key, and the construction-time secret in the OpenAI-API-Key header; *)
(* headers and body are the same on every attempt.                         *)
C19_CarriesStrippedCredential ==
    InGenerateCompletion =>
        /\ \A i \in 1..Len(PostsTo(CompletionsUrl)) :
               LET e == PostsTo(CompletionsUrl)[i]
               IN  /\ e.headers["api-key"] = strip(frame.api_key)
                   /\ e.headers["OpenAI-API-Key"] = environ
                   /\ e.json = completion_body(frame.agent_id, completion_prompt)
        /\ C19_SameOnEveryAttempt

\* three requests, with a padded credential other than the stored one
C19_Witness ==
    /\ InGenerateCompletion
    /\ Len(PostsTo(CompletionsUrl)) = 3
    /\ frame.api_key = K_b_padded
    /\ api_key.ty = "str" /\ strip(api_key) # strip(frame.api_key)

\* a step taken inside a method of the constructed client
C20_ClientStep == client = "live" /\ op' # "idle"

\* the step has sent a user-creation request and create_user has returned
C20_UserCreated ==
    /\ Len(UserAnswers') = Len(UserAnswers) + 1
    /\ UserCallReturns(UserAnswers'[Len(UserAnswers')])

\* after a create_user that failed, the next agent-creation request carries
\* the credential of the one before
C20_OldCredentialAfterFailure ==
    InCreateAgent =>
        \A i \in 1..Len(trace) :
            (/\ UserPostAt(i)
             /\ ~UserCallReturns(trace[i + 1].reply)
             /\ Len(PostsTo(AgentUrl)) > AgentPostsUpTo(i)) =>
                LET q == PositionOfPost(AgentUrl, AgentPostsUpTo(i) + 1)
                IN  trace[q].headers["api-key"] = trace[i - 2].headers["api-key"]

(* C20: inside the client the stored api_key and user_id change only in a  *)
(* step in which create_user returns; a create_user that fails leaves both *)
(* as they were, so the attempt after a failed re-provisioning carries the *)
(* old credential; create_api_key and generate_completion leave both as    *)
(* they were, whatever their outcome.                                      *)
C20_WrittenOnlyByCreateUser ==
    [][C20_ClientStep =>
          /\ <<api_key, user_id>>' # <<api_key, user_id>> => C20_UserCreated
          /\ frame'.method \in {"create_api_key", "generate_completion"} =>
                 <<api_key, user_id>>' = <<api_key, user_id>>
          /\ C20_OldCredentialAfterFailure']_vars

\* a re-provisioning has failed and the next attempt has been made
C20_Witness ==
    /\ InCreateAgent
    /\ Len(UserAnswers) >= 1 /\ ~UserCallReturns(UserAnswers[1])
    /\ Len(PostsTo(AgentUrl)) >= 2
    /\ PostsTo(AgentUrl)[2].headers = PostsTo(AgentUrl)[1].headers
    /\ api_key.ty = "str"

====
